---- MODULE Spec2Model ----
(***************************************************************************)
(* The Digital Earth Africa sandbox notebooks as state machines.           *)
(*                                                                         *)
(* Three notebooks are modelled, each with its own kernel namespace:       *)
(*   basic     Beginners_guide/05_Basic_analysis.ipynb                     *)
(*   pca       Frequently_used_code/Principal_component_analysis.ipynb     *)
(*   template  the notebook template (unnamed/part_000)                    *)
(* A step executes one code cell of one notebook.  Cells run in notebook   *)
(* order; the user may go back to an earlier cell, once, and run on from   *)
(* there, with the parameter cells edited.  A cell that raises stops the   *)
(* run at that cell.  A behaviour is the session of one notebook, or a     *)
(* session of notebooks run side by side, each top to bottom.              *)
(*                                                                         *)
(* Numbers: latitudes, longitudes and the buffer are Python floats, held   *)
(* exactly; the literals of the cells are written in thousandths of a      *)
(* degree.  Band values are uint16 and keep their width.  A float that     *)
(* results from a division is held as the exact fraction num/den, or       *)
(* as nan / inf when the divisor is 0 (rounding to float32 changes neither *)
(* the sign of a quotient nor on which side of -1 and 1 it lies).          *)
(***************************************************************************)
EXTENDS Integers, Sequences, FiniteSets, TLC

VARIABLES
    basic,      \* namespace of the Basic analysis kernel: name -> None | Some(v)
    pca,        \* namespace of the PCA kernel
    template,   \* namespace of the template kernel
    pc,         \* per notebook: index of the next code cell to run
    err,        \* per notebook: error raised by the most recent cell, or "none"
    last_cell,  \* <<notebook, cell index>> of the most recently executed cell
    queries,    \* the data cube service's log, in order: [query, ok] per query received
    files,      \* files on disk: set of [fname, bands, index, x, y, data]
    shown,      \* per notebook: what the most recent display cell rendered
    went_back,  \* per notebook: whether the user went back to an earlier cell
    side_by_side \* whether the session runs notebooks side by side, each in its kernel

vars == <<basic, pca, template, pc, err, last_cell, queries, files, shown, went_back,
          side_by_side>>

----------------------------------------------------------------------------
(* Bounds of the model *)

\* most pixels (time * y * x) of a loaded array in the arithmetic specification
MaxPixels == 2
\* most time steps of an array loaded in a notebook session
MaxT == 2
\* most queries the data cube service receives in a session
MaxQueries == 3
\* most steps of 0.025 degree the buffer is drawn from in the study-area specification
MaxBufferSteps == 8

----------------------------------------------------------------------------
(* Unbound and bound names *)

None == <<>>
Some(v) == <<v>>
Get(o) == o[1]

\* every name of `names` is bound in namespace ns (else the cell raises NameError)
Bound(ns, names) == \A n \in names : ns[n] # None

Notebooks == {"basic", "pca", "template"}

----------------------------------------------------------------------------
(* uint16 arithmetic of the array library, elementwise *)

UINT16 == 65536

\* uint16 - uint16 -> uint16, wrapping
Sub16(a, b) == (a - b) % UINT16

\* uint16 + uint16 -> uint16, wrapping
Add16(a, b) == (a + b) % UINT16

NaN == [kind |-> "nan", num |-> 0, den |-> 0]
Inf(s) == [kind |-> "inf", num |-> s, den |-> 0]

\* TrueDivide with the zero divisor guarded: 0 where the divisor is 0
TrueDivideGuarded(n, d) ==
    IF d = 0
    THEN [kind |-> "finite", num |-> 0, den |-> 1]
    ELSE [kind |-> "finite", num |-> n, den |-> d]

\* uint16 / uint16 -> float: n / 0 is nan for n = 0 and +-inf otherwise, with
\* a warning and no exception
TrueDivide(n, d) ==
    IF d = 0
    THEN IF n = 0 THEN NaN ELSE Inf(IF n > 0 THEN 1 ELSE -1)
    ELSE [kind |-> "finite", num |-> n, den |-> d]

\* indices of an array of shape s = <<time, y, x>> (0-based, as in Python)
Index(s) == (0 .. s[1] - 1) \X (0 .. s[2] - 1) \X (0 .. s[3] - 1)

----------------------------------------------------------------------------
(* Python floats (IEEE 754 binary64), for the coordinates and the buffer.       *)
(* A float is held exactly, as a sign and a magnitude counted in units of       *)
(* 2^-60 degree; the magnitude is a number of four limbs in base 2^20, least    *)
(* significant first.  Every binary64 value that is 0 or between 2^-7 and 2^12  *)
(* in magnitude is such a number, and sums and differences of such numbers stay *)
(* such numbers.                                                                *)

LimbBase == 1048576
MantissaBits == 53

RECURSIVE Pow2(_)
Pow2(n) == IF n = 0 THEN 1 ELSE 2 * Pow2(n - 1)

RECURSIVE BitLenInt(_)
BitLenInt(n) == IF n = 0 THEN 0 ELSE 1 + BitLenInt(n \div 2)

MagZero == <<0, 0, 0, 0>>

\* a + b of two magnitudes
MagAdd(a, b) ==
    LET s1 == a[1] + b[1]
        s2 == a[2] + b[2] + s1 \div LimbBase
        s3 == a[3] + b[3] + s2 \div LimbBase
        s4 == a[4] + b[4] + s3 \div LimbBase
    IN  <<s1 % LimbBase, s2 % LimbBase, s3 % LimbBase, s4>>

\* a - b of two magnitudes, a >= b
MagSub(a, b) ==
    LET d1 == a[1] - b[1]
        d2 == a[2] - b[2] - (IF d1 < 0 THEN 1 ELSE 0)
        d3 == a[3] - b[3] - (IF d2 < 0 THEN 1 ELSE 0)
        d4 == a[4] - b[4] - (IF d3 < 0 THEN 1 ELSE 0)
    IN  <<d1 % LimbBase, d2 % LimbBase, d3 % LimbBase, d4>>

\* a < b of two magnitudes
MagLess(a, b) ==
    \E i \in 1 .. 4 : a[i] < b[i] /\ \A j \in (i + 1) .. 4 : a[j] = b[j]

\* number of binary digits of a magnitude
MagBitLen(a) ==
    IF a = MagZero THEN 0
    ELSE LET k == CHOOSE i \in 1 .. 4 : a[i] # 0 /\ \A j \in (i + 1) .. 4 : a[j] = 0
         IN  20 * (k - 1) + BitLenInt(a[k])

\* a magnitude rounded to MantissaBits significant binary digits, to nearest and
\* ties to even; sticky: the exact value lies above a by less than one unit
MagRound(a, sticky) ==
    LET s    == MagBitLen(a) - MantissaBits
        r    == a[1] % Pow2(s)
        half == Pow2(s - 1)
        odd  == (a[1] \div Pow2(s)) % 2 = 1
        down == [a EXCEPT ![1] = a[1] - r]
    IN  IF s <= 0 THEN a
        ELSE IF r > half \/ (r = half /\ (sticky \/ odd))
        THEN MagAdd(down, <<Pow2(s), 0, 0, 0>>)
        ELSE down

\* the unit in the last place of a float of magnitude a, in units of 2^-60
MagUlp(a) == IF MagBitLen(a) <= MantissaBits THEN 1 ELSE Pow2(MagBitLen(a) - MantissaBits)

Float(neg, mag) == [neg |-> neg /\ mag # MagZero, mag |-> mag]

\* the exact sum and difference of two floats (not rounded)
ExactAdd(x, y) ==
    IF x.neg = y.neg THEN Float(x.neg, MagAdd(x.mag, y.mag))
    ELSE IF MagLess(x.mag, y.mag) THEN Float(y.neg, MagSub(y.mag, x.mag))
    ELSE Float(x.neg, MagSub(x.mag, y.mag))
ExactSub(x, y) == ExactAdd(x, Float(~y.neg, y.mag))

\* x + y and x - y of Python floats
FAdd(x, y) == Float(ExactAdd(x, y).neg, MagRound(ExactAdd(x, y).mag, FALSE))
FSub(x, y) == Float(ExactSub(x, y).neg, MagRound(ExactSub(x, y).mag, FALSE))

\* x <= y of Python floats
FLeq(x, y) ==
    IF x.neg /\ ~y.neg THEN TRUE
    ELSE IF ~x.neg /\ y.neg THEN FALSE
    ELSE IF x.neg THEN ~MagLess(x.mag, y.mag)
    ELSE ~MagLess(y.mag, x.mag)

\* the float of a decimal literal with three decimals, given in thousandths
\* (13.974 is FloatLiteral(13974)): the binary64 value nearest to th / 1000
FloatLiteral(th) ==
    LET m  == IF th < 0 THEN -th ELSE th
        q4 == m \div 1000
        n3 == (m % 1000) * LimbBase
        q3 == n3 \div 1000
        n2 == (n3 % 1000) * LimbBase
        q2 == n2 \div 1000
        n1 == (n2 % 1000) * LimbBase
        q1 == n1 \div 1000
    IN  Float(th < 0, MagRound(<<q1, q2, q3, q4>>, n1 % 1000 # 0))

----------------------------------------------------------------------------
(* What the data cube service holds and returns *)

BandNames == {"red", "blue", "green", "nir"}

\* band values the arithmetic specification draws nir and red from: the ends
\* and the middle of the uint16 range
BandValues == {0, 1, 32768, 65535}

\* <<nir, red>> of the pixels a notebook session loads: the first and the last
\* pixel of the print(dataset) output, at even and odd time steps
PixelSamples == <<<<18074, 12324>>, <<8422, 8469>>>>

\* blue and green of every modelled pixel (first pixel of the print(dataset) output)
BlueSample == 9710
GreenSample == 10956

\* the arrays of one query result: shape s, nir and red given per pixel
Cube(s, nir, red) ==
    [shape |-> s,
     data  |-> [b \in BandNames |->
                  CASE b = "nir"   -> nir
                    [] b = "red"   -> red
                    [] b = "blue"  -> [i \in Index(s) |-> BlueSample]
                    [] b = "green" -> [i \in Index(s) |-> GreenSample]]]

\* every query result over the shapes `shapes` with <<nir, red>> drawn from `pairs`
Cubes(shapes, pairs) ==
    UNION {{Cube(s, [i \in Index(s) |-> p[i][1]], [i \in Index(s) |-> p[i][2]]) :
              p \in [Index(s) -> pairs]} : s \in shapes}

\* shapes of the arithmetic specification: at most MaxPixels pixels
ArithShapes ==
    {s \in (1 .. MaxPixels) \X (1 .. MaxPixels) \X (1 .. MaxPixels) :
        s[1] * s[2] * s[3] <= MaxPixels}

\* shapes of a notebook session: one pixel, 1 .. MaxT time steps
SessionShapes == {<<t, 1, 1>> : t \in 1 .. MaxT}

ArithCubes == Cubes(ArithShapes, BandValues \X BandValues)
\* query results of a notebook session: the service holds one pixel per time
\* step, and the query decides how many time steps come back
SessionCubes ==
    {Cube(s, [i \in Index(s) |-> PixelSamples[(i[1] % 2) + 1][1]],
             [i \in Index(s) |-> PixelSamples[(i[1] % 2) + 1][2]]) : s \in SessionShapes}

\* set of the elements of a sequence
Range(seq) == {seq[i] : i \in 1 .. Len(seq)}

\* the labeled array dc.load returns for query q when the service answers with cube c
Dataset(q, c) ==
    [dims      |-> <<"time", "y", "x">>,
     shape     |-> c.shape,
     x         |-> q.x,
     y         |-> q.y,
     time      |-> q.time,
     crs       |-> q.output_crs,
     data_vars |-> q.measurements,
     dtype     |-> "uint16",
     data      |-> [m \in Range(q.measurements) |-> c.data[m]]]

\* one data variable of a dataset, as a labeled array of its own
Band(ds, m) ==
    [dims   |-> ds.dims,
     shape  |-> ds.shape,
     x      |-> ds.x,
     y      |-> ds.y,
     time   |-> ds.time,
     dtype  |-> ds.dtype,
     values |-> ds.data[m]]

\* Python's index resolution along an axis of length n: negative counts from the end
InRange(i, n) == -n <= i /\ i < n
\* index resolution that takes every negative index for the first element
ResolveClamped(i, n) == IF i < 0 THEN 0 ELSE i
Resolve(i, n) == IF i < 0 THEN i + n ELSE i

\* a value of time_step: an integer, or a list of integers
Scalar(i) == [list |-> FALSE, at |-> <<i>>]
List(seq) == [list |-> TRUE, at |-> seq]

\* isel(time=t) on an axis of length n: every index of t is in range
IselInRange(t, n) == \A j \in 1 .. Len(t.at) : InRange(t.at[j], n)
\* isel(time=t): the position an integer selects, the positions a list selects
Isel(t, n) ==
    IF t.list THEN [j \in 1 .. Len(t.at) |-> Resolve(t.at[j], n)] ELSE Resolve(t.at[1], n)

----------------------------------------------------------------------------
(* The result of running a cell: the namespace after it, the error it raised,  *)
(* the queries it sent (with the service's answer), the files it wrote and     *)
(* what it displayed.                                                          *)

Result(ns, e, q, f, s) == [ns |-> ns, err |-> e, q |-> q, f |-> f, show |-> s]
Ok(ns) == Result(ns, "none", <<>>, {}, None)
Raise(ns, e) == Result(ns, e, <<>>, {}, None)
Show(ns, s) == Result(ns, "none", <<>>, {}, Some(s))

----------------------------------------------------------------------------
(* Basic analysis notebook: the code cells, in notebook order.  Each operator *)
(* takes the kernel namespace (and the cell's inputs) and gives the Result.   *)

BasicNames ==
    {"datacube", "plt", "write_cog", "display_map", "rgb", "dc",
     "central_lat", "central_lon", "buffer", "study_area_lat", "study_area_lon",
     "set_product", "set_time", "set_measurements", "set_crs", "set_resolution",
     "dataset", "time_step", "bands", "time_string", "ax",
     "band_diff", "band_sum", "ndvi", "ndvi_time_step", "filename", "date"}

\* Load packages without the import of rgb
BasicLoadPackagesNoRgb(ns) ==
    Ok([ns EXCEPT !.datacube    = Some("datacube"),
                  !.plt         = Some("matplotlib.pyplot"),
                  !.write_cog   = Some("datacube.utils.cog.write_cog"),
                  !.display_map = Some("deafrica_tools.plotting.display_map")])

\* cell 1: Load packages
BasicLoadPackages(ns) ==
    Ok([ns EXCEPT !.datacube    = Some("datacube"),
                  !.plt         = Some("matplotlib.pyplot"),
                  !.write_cog   = Some("datacube.utils.cog.write_cog"),
                  !.display_map = Some("deafrica_tools.plotting.display_map"),
                  !.rgb         = Some("deafrica_tools.plotting.rgb")])

\* cell 2: Connect to the datacube
BasicConnect(ns) ==
    IF ~Bound(ns, {"datacube"}) THEN Raise(ns, "NameError")
    ELSE Ok([ns EXCEPT !.dc = Some([app |-> "05_Basic_analysis"])])

\* the study-area cell with the latitude range written upper bound first
BasicStudyAreaReversed(ns, lat, lon, buf) ==
    LET central_lat == FloatLiteral(lat)
        central_lon == FloatLiteral(lon)
        buffer      == FloatLiteral(buf)
    IN  Ok([ns EXCEPT
              !.central_lat    = Some(central_lat),
              !.central_lon    = Some(central_lon),
              !.buffer         = Some(buffer),
              !.study_area_lat = Some(<<FAdd(central_lat, buffer), FSub(central_lat, buffer)>>),
              !.study_area_lon = Some(<<FSub(central_lon, buffer), FAdd(central_lon, buffer)>>)])

\* cell 3: the study area, for the central coordinates and buffer written in the
\* cell (lat, lon, buf: the literals, in thousandths)
BasicStudyArea(ns, lat, lon, buf) ==
    LET central_lat == FloatLiteral(lat)
        central_lon == FloatLiteral(lon)
        buffer      == FloatLiteral(buf)
    IN  Ok([ns EXCEPT
              !.central_lat    = Some(central_lat),
              !.central_lon    = Some(central_lon),
              !.buffer         = Some(buffer),
              !.study_area_lat = Some(<<FSub(central_lat, buffer), FAdd(central_lat, buffer)>>),
              !.study_area_lon = Some(<<FSub(central_lon, buffer), FAdd(central_lon, buffer)>>)])

\* cell 4: display_map
BasicDisplayMap(ns) ==
    IF ~Bound(ns, {"display_map", "study_area_lon", "study_area_lat"})
    THEN Raise(ns, "NameError")
    ELSE Show(ns, [x |-> Get(ns.study_area_lon), y |-> Get(ns.study_area_lat)])

\* cell 5: the load parameters
BasicLoadParams(ns) ==
    Ok([ns EXCEPT !.set_product      = Some("ls8_sr"),
                  !.set_time         = Some(<<"2016-01-01", "2016-06-01">>),
                  !.set_measurements = Some(<<"red", "blue", "green", "nir">>),
                  !.set_crs          = Some("EPSG:6933"),
                  !.set_resolution   = Some(<<-30, 30>>)])

\* the query with the longitude and latitude ranges exchanged
BasicQuerySwapped(ns) ==
    [app          |-> Get(ns.dc).app,
     product      |-> Get(ns.set_product),
     x            |-> Get(ns.study_area_lat),
     y            |-> Get(ns.study_area_lon),
     time         |-> Get(ns.set_time),
     measurements |-> Get(ns.set_measurements),
     output_crs   |-> Get(ns.set_crs),
     resolution   |-> Get(ns.set_resolution)]

\* the query dc.load sends for the parameters held in ns
BasicQuery(ns) ==
    [app          |-> Get(ns.dc).app,
     product      |-> Get(ns.set_product),
     x            |-> Get(ns.study_area_lon),
     y            |-> Get(ns.study_area_lat),
     time         |-> Get(ns.set_time),
     measurements |-> Get(ns.set_measurements),
     output_crs   |-> Get(ns.set_crs),
     resolution   |-> Get(ns.set_resolution)]

\* the load cell catching the failure of the query and binding an empty array
BasicLoadSwallow(ns, ok, c) ==
    IF ~Bound(ns, {"dc", "set_product", "study_area_lon", "study_area_lat",
                   "set_time", "set_measurements", "set_crs", "set_resolution"})
    THEN Raise(ns, "NameError")
    ELSE IF ~ok
    THEN Result([ns EXCEPT !.dataset =
                    Some([Dataset(BasicQuery(ns), Cube(<<1, 1, 1>>, <<>>, <<>>))
                             EXCEPT !.shape = <<0, 0, 0>>, !.data_vars = <<>>])],
                "none", <<[query |-> BasicQuery(ns), ok |-> FALSE]>>, {}, None)
    ELSE Result([ns EXCEPT !.dataset = Some(Dataset(BasicQuery(ns), c))],
                "none", <<[query |-> BasicQuery(ns), ok |-> TRUE]>>, {}, None)

\* cell 6: dataset = dc.load(...); the service answers with cube c when ok and
\* dc.load raises when not
BasicLoad(ns, ok, c) ==
    IF ~Bound(ns, {"dc", "set_product", "study_area_lon", "study_area_lat",
                   "set_time", "set_measurements", "set_crs", "set_resolution"})
    THEN Raise(ns, "NameError")
    ELSE IF ~ok
    THEN Result(ns, "LoadError", <<[query |-> BasicQuery(ns), ok |-> FALSE]>>, {}, None)
    ELSE Result([ns EXCEPT !.dataset = Some(Dataset(BasicQuery(ns), c))],
                "none", <<[query |-> BasicQuery(ns), ok |-> TRUE]>>, {}, None)

\* cell 7: print(dataset)
BasicPrint(ns) ==
    IF ~Bound(ns, {"dataset"}) THEN Raise(ns, "NameError")
    ELSE Show(ns, Get(ns.dataset))

\* cell 8: the time step to view, as written in the cell
BasicTimeStep(ns, t) ==
    Ok([ns EXCEPT !.time_step = Some(t)])

\* rgb(ds, bands=bands, index=index): the image of the bands at the time steps
\* index selects, one panel per time step; an integer and a list of one index
\* give a single panel
rgb(ds, bands, index) ==
    IF ~(Range(bands) \subseteq Range(ds.data_vars)) THEN [err |-> "KeyError"]
    ELSE IF ~IselInRange(index, ds.shape[1]) THEN [err |-> "IndexError"]
    ELSE [err    |-> "none",
          bands  |-> bands,
          panels |-> [j \in 1 .. Len(index.at) |-> Resolve(index.at[j], ds.shape[1])]]

\* the plot cell passing the first of the time steps to rgb when time_step is a list
BasicPlotFirstOnly(ns) ==
    LET ns1 == [ns EXCEPT !.bands = Some(<<"red", "green", "blue">>)]
        ds  == Get(ns.dataset)
        t   == Get(ns.time_step)
        img == rgb(ds, Get(ns1.bands), Scalar(t.at[1]))
        ns2 == [ns1 EXCEPT !.time_string = Some(Isel(t, ds.shape[1]))]
        ns3 == [ns2 EXCEPT !.ax = Some("axes")]
    IN  IF ~Bound(ns1, {"rgb", "dataset", "time_step"}) THEN Raise(ns1, "NameError")
        ELSE IF img.err # "none" THEN Raise(ns1, img.err)
        ELSE IF ~IselInRange(t, ds.shape[1]) THEN Raise(ns1, "IndexError")
        ELSE IF ~Bound(ns2, {"plt"}) THEN Raise(ns2, "NameError")
        ELSE Show(ns3, [bands  |-> img.bands,
                        index  |-> Isel(Scalar(t.at[1]), ds.shape[1]),
                        panels |-> img.panels,
                        title  |-> Get(ns2.time_string)])

\* cell 9: the RGB plot and its title
BasicPlot(ns) ==
    LET ns1 == [ns EXCEPT !.bands = Some(<<"red", "green", "blue">>)]
        ds  == Get(ns.dataset)
        t   == Get(ns.time_step)
        img == rgb(ds, Get(ns1.bands), t)
        \* the time stamp of the selected time step, held as its position on the
        \* time axis (for a list: the text of the array of the selected time stamps)
        ns2 == [ns1 EXCEPT !.time_string = Some(Isel(t, ds.shape[1]))]
        ns3 == [ns2 EXCEPT !.ax = Some("axes")]
    IN  IF ~Bound(ns1, {"rgb", "dataset", "time_step"}) THEN Raise(ns1, "NameError")
        ELSE IF img.err # "none" THEN Raise(ns1, img.err)
        ELSE IF ~IselInRange(t, ds.shape[1]) THEN Raise(ns1, "IndexError")
        ELSE IF ~Bound(ns2, {"plt"}) THEN Raise(ns2, "NameError")
        ELSE Show(ns3, [bands  |-> img.bands,
                        index  |-> Isel(t, ds.shape[1]),
                        panels |-> img.panels,
                        title  |-> Get(ns2.time_string)])


\* band_diff = dataset.nir - dataset.red, in the dtype of the bands
band_diff(ds) ==
    [Band(ds, "nir") EXCEPT
        !.values = [i \in Index(ds.shape) |-> Sub16(ds.data["nir"][i], ds.data["red"][i])]]

\* band_sum = dataset.nir + dataset.red, in the dtype of the bands
band_sum(ds) ==
    [Band(ds, "nir") EXCEPT
        !.values = [i \in Index(ds.shape) |-> Add16(ds.data["nir"][i], ds.data["red"][i])]]

\* ndvi averaged over time: one value per pixel, the time dimension gone
ndvi_time_mean(diff, sum) ==
    [diff EXCEPT
        !.dtype  = "float32",
        !.dims   = <<"y", "x">>,
        !.shape  = <<1, diff.shape[2], diff.shape[3]>>,
        !.values = [i \in Index(<<1, diff.shape[2], diff.shape[3]>>) |->
                      TrueDivide(diff.values[i], sum.values[i])]]

\* ndvi = band_diff / band_sum: true division, a float array
ndvi(diff, sum) ==
    [diff EXCEPT
        !.dtype  = "float32",
        !.values = [i \in Index(diff.shape) |-> TrueDivide(diff.values[i], sum.values[i])]]

\* the NDVI cell storing its result as a measurement of dataset as well
NdviAssignStored(ns) ==
    [ns EXCEPT !.band_diff = Some(band_diff(Get(ns.dataset))),
               !.band_sum  = Some(band_sum(Get(ns.dataset))),
               !.ndvi      = Some(ndvi(band_diff(Get(ns.dataset)),
                                       band_sum(Get(ns.dataset)))),
               !.dataset   = Some([Get(ns.dataset) EXCEPT
                                     !.data_vars = Append(@, "NDVI")])]

\* the namespace after the three assignments of the NDVI cell
NdviAssign(ns) ==
    [ns EXCEPT !.band_diff = Some(band_diff(Get(ns.dataset))),
               !.band_sum  = Some(band_sum(Get(ns.dataset))),
               !.ndvi      = Some(ndvi(band_diff(Get(ns.dataset)),
                                       band_sum(Get(ns.dataset))))]

\* cell 10: the NDVI cell
BasicNDVI(ns) ==
    IF ~Bound(ns, {"dataset"}) THEN Raise(ns, "NameError")
    ELSE IF ~({"nir", "red"} \subseteq Range(Get(ns.dataset).data_vars))
    THEN Raise(ns, "AttributeError")
    ELSE Ok(NdviAssign(ns))

\* cell 11: the NDVI plot of the time step written in the cell (0)
BasicNDVIPlot(ns) ==
    LET ns1 == [ns EXCEPT !.ndvi_time_step = Some(0)]
        a   == Get(ns.ndvi)
    IN  IF ~Bound(ns1, {"plt", "ndvi"}) THEN Raise(ns1, "NameError")
        ELSE IF ~InRange(0, a.shape[1]) THEN Raise(ns1, "IndexError")
        ELSE Show(ns1, [index  |-> 0,
                        x      |-> a.x,
                        y      |-> a.y,
                        values |-> [p \in (0 .. a.shape[2] - 1) \X (0 .. a.shape[3] - 1) |->
                                      a.values[<<0, p[1], p[2]>>]]])

\* the export of the first time step, whatever time_step holds
ExportImageFirst(ds, t, fname) ==
    [fname |-> fname,
     bands |-> ds.data_vars,
     index |-> 0,
     x     |-> ds.x,
     y     |-> ds.y,
     data  |-> [m \in Range(ds.data_vars) |->
                  [p \in (0 .. ds.shape[2] - 1) \X (0 .. ds.shape[3] - 1) |->
                     ds.data[m][<<0, p[1], p[2]>>]]]]

\* dataset.isel(time=t).to_array(): the data variables of one time step, stacked
\* in the order of data_vars
ExportImage(ds, t, fname) ==
    [fname |-> fname,
     bands |-> ds.data_vars,
     index |-> Resolve(t, ds.shape[1]),
     x     |-> ds.x,
     y     |-> ds.y,
     data  |-> [m \in Range(ds.data_vars) |->
                  [p \in (0 .. ds.shape[2] - 1) \X (0 .. ds.shape[3] - 1) |->
                     ds.data[m][<<Resolve(t, ds.shape[1]), p[1], p[2]>>]]]]

\* cell 12: the export cell; write_cog takes an array of bands of one image (a
\* list for time_step keeps the time axis: ValueError), and it is called without
\* overwrite=True, so it raises when a file of that name is on disk (disk = files
\* at the time of the call)
BasicExport(ns, disk) ==
    LET ns1 == [ns EXCEPT !.filename = Some("example.tif")]
        ds  == Get(ns.dataset)
        t   == Get(ns.time_step)
    IN  IF ~Bound(ns1, {"write_cog", "dataset", "time_step"}) THEN Raise(ns1, "NameError")
        ELSE IF ~IselInRange(t, ds.shape[1]) THEN Raise(ns1, "IndexError")
        ELSE IF t.list THEN Raise(ns1, "ValueError")
        ELSE IF \E f \in disk : f.fname = Get(ns1.filename) THEN Raise(ns1, "IOError")
        ELSE Result(ns1, "none", <<>>, {ExportImage(ds, t.at[1], Get(ns1.filename))}, None)

\* cell 13: print(datacube.__version__)
BasicVersion(ns) ==
    IF ~Bound(ns, {"datacube"}) THEN Raise(ns, "NameError")
    ELSE Show(ns, "datacube.__version__")

\* cell 14: from datetime import date; print(date.today())
BasicLastTested(ns) ==
    Show([ns EXCEPT !.date = Some("datetime.date")], "date.today()")

BasicCells == 14


----------------------------------------------------------------------------
(* Principal component analysis notebook: the code cells, in notebook order. *)
(* The arrays of this notebook are held by their labels and shape alone.     *)

PcaNames ==
    {"PCA", "datacube", "load_ard", "rgb", "sklearn_flatten", "sklearn_unflatten",
     "dc", "lat", "lon", "buffer", "query", "bands",
     "ds", "X", "pca", "predict", "out", "datetime"}

\* the arrays load_ard returns in a session: shape <<time, y, x>>, and the
\* number of pixels (over all time steps) that no band has masked (nan): none,
\* one fewer than the principal components asked for, all but one, all
PcaShapes == {<<t, 1, 3>> : t \in 1 .. MaxT}
PcaArrays ==
    UNION {{[shape |-> s, valid |-> v] :
              v \in {0, 2, s[1] * s[2] * s[3] - 1, s[1] * s[2] * s[3]}} : s \in PcaShapes}

\* cell 1: Load packages
PcaLoadPackages(ns) ==
    Ok([ns EXCEPT !.PCA               = Some("sklearn.decomposition.PCA"),
                  !.datacube          = Some("datacube"),
                  !.load_ard          = Some("deafrica_tools.datahandling.load_ard"),
                  !.rgb               = Some("deafrica_tools.plotting.rgb"),
                  !.sklearn_flatten   = Some("deafrica_tools.classification.sklearn_flatten"),
                  !.sklearn_unflatten = Some("deafrica_tools.classification.sklearn_unflatten")])

\* cell 2: Connect to the datacube
PcaConnect(ns) ==
    IF ~Bound(ns, {"datacube"}) THEN Raise(ns, "NameError")
    ELSE Ok([ns EXCEPT !.dc = Some([app |-> "pca"])])

\* cell 3: Analysis parameters
PcaParams(ns) ==
    LET lat == FloatLiteral(-15920)
        lon == FloatLiteral(46350)
        buf == FloatLiteral(100)
    IN  Ok([ns EXCEPT
              !.lat    = Some(lat),
              !.lon    = Some(lon),
              !.buffer = Some(buf),
              !.query  = Some([time       |-> <<"2020-01", "2020-03">>,
                               x          |-> <<FSub(lon, buf), FAdd(lon, buf)>>,
                               y          |-> <<FAdd(lat, buf), FSub(lat, buf)>>,
                               output_crs |-> "epsg:6933",
                               resolution |-> <<-20, 20>>]),
              !.bands  = Some(<<"blue", "green", "red", "red_edge_1", "red_edge_2",
                                "red_edge_3", "nir_narrow", "swir_1", "swir_2">>)])

\* the query load_ard sends for the parameters held in ns
PcaQuery(ns) ==
    [app          |-> Get(ns.dc).app,
     products     |-> <<"s2_l2a">>,
     x            |-> Get(ns.query).x,
     y            |-> Get(ns.query).y,
     time         |-> Get(ns.query).time,
     measurements |-> Get(ns.bands),
     output_crs   |-> Get(ns.query).output_crs,
     resolution   |-> Get(ns.query).resolution]

\* cell 4: ds = load_ard(...); the service answers with the array a when ok and
\* load_ard raises when not
PcaLoad(ns, ok, a) ==
    IF ~Bound(ns, {"load_ard", "dc", "bands", "query"}) THEN Raise(ns, "NameError")
    ELSE IF ~ok
    THEN Result(ns, "LoadError", <<[query |-> PcaQuery(ns), ok |-> FALSE]>>, {}, None)
    ELSE Result([ns EXCEPT !.ds = Some([dims      |-> <<"time", "y", "x">>,
                                        shape     |-> a.shape,
                                        valid     |-> a.valid,
                                        x         |-> PcaQuery(ns).x,
                                        y         |-> PcaQuery(ns).y,
                                        time      |-> PcaQuery(ns).time,
                                        crs       |-> PcaQuery(ns).output_crs,
                                        data_vars |-> PcaQuery(ns).measurements,
                                        dtype     |-> "float32"])],
                "none", <<[query |-> PcaQuery(ns), ok |-> TRUE]>>, {}, None)

\* list(range(len(ds.time)))
AllTimeSteps(ds) == List([j \in 1 .. ds.shape[1] |-> j - 1])

\* cell 5: rgb of the loaded bands, every time step
PcaPlotInput(ns) ==
    IF ~Bound(ns, {"rgb", "ds"}) THEN Raise(ns, "NameError")
    ELSE LET img == rgb(Get(ns.ds), <<"swir_1", "nir_narrow", "red_edge_1">>,
                        AllTimeSteps(Get(ns.ds)))
         IN  IF img.err # "none" THEN Raise(ns, img.err) ELSE Show(ns, img)

\* sklearn_flatten(ds): one row per pixel and time step that no band has masked,
\* one column per band
sklearn_flatten(ds) == [rows |-> ds.valid, cols |-> Len(ds.data_vars)]

\* sklearn_unflatten(predict, ds): the rows of predict put back at the pixels and
\* time steps they came from (nan elsewhere), one layer per column of predict
sklearn_unflatten(predict, ds) ==
    [dims  |-> <<"output_dim_0", "x", "y", "time">>,
     shape |-> <<predict.cols, ds.shape[3], ds.shape[2], ds.shape[1]>>,
     x     |-> ds.x,
     y     |-> ds.y,
     time  |-> ds.time,
     dtype |-> "float64"]

\* a.to_dataset(dim=d), d the first dimension of a: one data variable per index
\* along d, named by the index
to_dataset(a) ==
    [dims      |-> Tail(a.dims),
     shape     |-> Tail(a.shape),
     x         |-> a.x,
     y         |-> a.y,
     time      |-> a.time,
     data_vars |-> [i \in 1 .. a.shape[1] |-> i - 1],
     dtype     |-> a.dtype]

\* position of dimension d in the sequence dims
DimAt(dims, d) == CHOOSE j \in 1 .. Len(dims) : dims[j] = d

\* a.transpose(order): the dimensions of a in the given order
transpose(a, order) ==
    [a EXCEPT !.dims  = order,
              !.shape = [j \in 1 .. Len(order) |-> a.shape[DimAt(a.dims, order[j])]]]

\* cell 6: X = sklearn_flatten(ds)
PcaFlatten(ns) ==
    IF ~Bound(ns, {"sklearn_flatten", "ds"}) THEN Raise(ns, "NameError")
    ELSE Ok([ns EXCEPT !.X = Some(sklearn_flatten(Get(ns.ds)))])

\* cell 7: pca = PCA(n_components=3); pca.fit(X)
PcaFit(ns) ==
    IF ~Bound(ns, {"PCA"}) THEN Raise(ns, "NameError")
    ELSE LET ns1 == [ns EXCEPT !.pca = Some([n_components |-> 3, fitted |-> FALSE])]
         IN  IF ~Bound(ns1, {"X"}) THEN Raise(ns1, "NameError")
             ELSE IF 3 > Get(ns.X).rows \/ 3 > Get(ns.X).cols THEN Raise(ns1, "ValueError")
             ELSE Ok([ns1 EXCEPT !.pca = Some([n_components |-> 3, fitted |-> TRUE])])

\* cell 8: print the explained variance ratio
PcaPrintVariance(ns) ==
    IF ~Bound(ns, {"pca"}) THEN Raise(ns, "NameError")
    ELSE IF ~Get(ns.pca).fitted THEN Raise(ns, "AttributeError")
    ELSE Show(ns, "pca.explained_variance_ratio_")

\* cell 9: predict = pca.transform(X)
PcaTransform(ns) ==
    IF ~Bound(ns, {"pca", "X"}) THEN Raise(ns, "NameError")
    ELSE IF ~Get(ns.pca).fitted THEN Raise(ns, "NotFittedError")
    ELSE Ok([ns EXCEPT !.predict = Some([rows |-> Get(ns.X).rows,
                                         cols |-> Get(ns.pca).n_components])])

\* the unflatten cell without the transpose
PcaUnflattenNoTranspose(ns) ==
    IF ~Bound(ns, {"sklearn_unflatten", "predict", "ds"}) THEN Raise(ns, "NameError")
    ELSE Ok([ns EXCEPT !.out = Some(to_dataset(sklearn_unflatten(Get(ns.predict), Get(ns.ds))))])

\* cell 10: out = sklearn_unflatten(predict, ds);
\* out = out.to_dataset(dim=out.dims[0]).transpose('time', 'y', 'x')
PcaUnflatten(ns) ==
    IF ~Bound(ns, {"sklearn_unflatten", "predict", "ds"}) THEN Raise(ns, "NameError")
    ELSE LET ns1 == [ns EXCEPT !.out = Some(sklearn_unflatten(Get(ns.predict), Get(ns.ds)))]
             d   == to_dataset(Get(ns1.out))
         IN  IF Range(d.dims) # {"time", "y", "x"} THEN Raise(ns1, "ValueError")
             ELSE Ok([ns1 EXCEPT !.out = Some(transpose(d, <<"time", "y", "x">>))])

\* the plot of the principal components saved to a file as well (savefig_path)
PcaPlotOutputSaved(ns) ==
    IF ~Bound(ns, {"rgb", "out"}) THEN Raise(ns, "NameError")
    ELSE LET img == rgb(Get(ns.out), <<2, 1, 0>>, AllTimeSteps(Get(ns.out)))
         IN  IF img.err # "none" THEN Raise(ns, img.err)
             ELSE Result(ns, "none", <<>>, {[fname |-> "pca.png"]}, Some(img))

\* cell 11: rgb of the principal components, every time step
PcaPlotOutput(ns) ==
    IF ~Bound(ns, {"rgb", "out"}) THEN Raise(ns, "NameError")
    ELSE LET img == rgb(Get(ns.out), <<2, 1, 0>>, AllTimeSteps(Get(ns.out)))
         IN  IF img.err # "none" THEN Raise(ns, img.err) ELSE Show(ns, img)

\* cell 12: print(datacube.__version__)
PcaVersion(ns) ==
    IF ~Bound(ns, {"datacube"}) THEN Raise(ns, "NameError")
    ELSE Show(ns, "datacube.__version__")

\* cell 13: from datetime import datetime; datetime.today().strftime('%Y-%m-%d')
PcaLastTested(ns) ==
    Show([ns EXCEPT !.datetime = Some("datetime.datetime")], "datetime.today()")

PcaCells == 13

----------------------------------------------------------------------------
(* Notebook template: the code cells, in notebook order. *)

TemplateNames ==
    {"datacube", "np", "pd", "xr", "plt", "dc",
     "param_name_1", "param_name_2", "a", "b", "c", "datetime"}

\* cell 1: Load packages
TemplateLoadPackages(ns) ==
    Ok([ns EXCEPT !.datacube = Some("datacube"),
                  !.np       = Some("numpy"),
                  !.pd       = Some("pandas"),
                  !.xr       = Some("xarray"),
                  !.plt      = Some("matplotlib.pyplot")])

\* cell 2: Connect to the datacube
TemplateConnect(ns) ==
    IF ~Bound(ns, {"datacube"}) THEN Raise(ns, "NameError")
    ELSE Ok([ns EXCEPT !.dc = Some([app |-> "DEA_notebooks_template"])])

\* cell 3: Analysis parameters
TemplateParams(ns) ==
    Ok([ns EXCEPT !.param_name_1 = Some("example_value"),
                  !.param_name_2 = Some("example_value")])

\* cells 4, 5, 6: a = 1, b = 2, c = 3
TemplateAssign(ns, name, v) ==
    Ok([ns EXCEPT ![name] = Some(v)])

\* cell 7: print(datacube.__version__)
TemplateVersion(ns) ==
    IF ~Bound(ns, {"datacube"}) THEN Raise(ns, "NameError")
    ELSE Show(ns, "datacube.__version__")

\* cell 8: from datetime import datetime; datetime.today().strftime('%Y-%m-%d')
TemplateLastTested(ns) ==
    Show([ns EXCEPT !.datetime = Some("datetime.datetime")], "datetime.today()")

TemplateCells == 8


----------------------------------------------------------------------------
(* The kernels and the world around them *)

\* central coordinates the user writes into the study-area cell: the ones in the
\* cell (mangroves in Senegal) and the first alternative the notebook offers
\* (Mount Kenya), in thousandths of a degree
DefaultCentre == <<13974, -16575>>
Centres == {DefaultCentre, <<-243, 37459>>}

\* the buffer written in the study-area cell, in thousandths of a degree
DefaultBuffer == 75
Buffers == {DefaultBuffer}

\* time steps the user writes into the time-step cell: the one in the cell (0),
\* the last image (-1, the notebook's hint), the images after the first, and the
\* list of the notebook's extension, the first and the last image
DefaultTimeStep == 0
TimeSteps ==
    {Scalar(t) : t \in {-1, DefaultTimeStep} \cup (1 .. MaxT - 1)} \cup {List(<<0, -1>>)}

Cells(nb) ==
    CASE nb = "basic"    -> BasicCells
      [] nb = "pca"      -> PcaCells
      [] nb = "template" -> TemplateCells

\* fresh kernels, an idle service and an empty directory
Fresh ==
    /\ basic = [n \in BasicNames |-> None]
    /\ pca = [n \in PcaNames |-> None]
    /\ template = [n \in TemplateNames |-> None]
    /\ pc = [nb \in Notebooks |-> 1]
    /\ err = [nb \in Notebooks |-> "none"]
    /\ last_cell = <<"none", 0>>
    /\ queries = <<>>
    /\ files = {}
    /\ shown = [nb \in Notebooks |-> [k \in 1 .. Cells(nb) |-> None]]
    /\ went_back = [nb \in Notebooks |-> FALSE]

Init == Fresh /\ side_by_side = FALSE

\* notebook nb may run a cell: in a session of one notebook it is the only one
\* in use; side by side, any notebook may run its next cell at any time
Alone(nb) == side_by_side \/ \A o \in Notebooks \ {nb} : pc[o] = 1 /\ ~went_back[o]

\* the kernel of notebook nb executes its cell k, the next one in notebook order,
\* with result r: on an error the run stops at the cell
Exec(nb, k, r) ==
    /\ pc[nb] = k
    /\ Alone(nb)
    /\ Len(queries) + Len(r.q) <= MaxQueries
    /\ pc' = [pc EXCEPT ![nb] = IF r.err = "none" THEN k + 1 ELSE k]
    /\ err' = [err EXCEPT ![nb] = r.err]
    /\ last_cell' = <<nb, k>>
    /\ queries' = queries \o r.q
    /\ files' = files \cup r.f
    /\ shown' = [shown EXCEPT ![nb][k] = r.show]
    /\ UNCHANGED <<went_back, side_by_side>>

ExecBasic(k, r) == Exec("basic", k, r) /\ basic' = r.ns /\ UNCHANGED <<pca, template>>
\* the PCA notebook run in the kernel of the Basic analysis notebook: the names
\* the two notebooks have in common are the same variables
ExecPcaShared(k, r) ==
    /\ Exec("pca", k, r)
    /\ pca' = r.ns
    /\ basic' = [n \in BasicNames |-> IF n \in PcaNames THEN r.ns[n] ELSE basic[n]]
    /\ UNCHANGED template

ExecPca(k, r) == Exec("pca", k, r) /\ pca' = r.ns /\ UNCHANGED <<basic, template>>
ExecTemplate(k, r) == Exec("template", k, r) /\ template' = r.ns /\ UNCHANGED <<basic, pca>>

\* the user selects an earlier cell k of notebook nb to run on from there, once
\* in a session
Rerun(nb, k) ==
    /\ k < pc[nb]
    /\ ~side_by_side
    /\ Alone(nb)
    /\ ~went_back[nb]
    /\ pc' = [pc EXCEPT ![nb] = k]
    /\ went_back' = [went_back EXCEPT ![nb] = TRUE]
    /\ last_cell' = <<nb, 0>>
    /\ UNCHANGED <<basic, pca, template, err, queries, files, shown, side_by_side>>

(* Basic analysis *)
RunBasicLoadPackages == ExecBasic(1, BasicLoadPackages(basic))
RunBasicConnect == ExecBasic(2, BasicConnect(basic))
RunBasicStudyArea(C, B) ==
    /\ pc["basic"] = 3
    /\ \E c \in C, b \in B : ExecBasic(3, BasicStudyArea(basic, c[1], c[2], b))
RunBasicDisplayMap == ExecBasic(4, BasicDisplayMap(basic))
RunBasicLoadParams == ExecBasic(5, BasicLoadParams(basic))
RunBasicLoad(D) ==
    /\ pc["basic"] = 6
    /\ \E c \in D : ExecBasic(6, BasicLoad(basic, TRUE, c))
RunBasicLoadFails == ExecBasic(6, BasicLoad(basic, FALSE, <<>>))
RunBasicPrint == ExecBasic(7, BasicPrint(basic))
RunBasicTimeStep(S) ==
    /\ pc["basic"] = 8
    /\ \E t \in S : ExecBasic(8, BasicTimeStep(basic, t))
RunBasicPlot == ExecBasic(9, BasicPlot(basic))
RunBasicNDVI == ExecBasic(10, BasicNDVI(basic))
RunBasicNDVIPlot == ExecBasic(11, BasicNDVIPlot(basic))
RunBasicExport == ExecBasic(12, BasicExport(basic, files))
RunBasicVersion == ExecBasic(13, BasicVersion(basic))
RunBasicLastTested == ExecBasic(14, BasicLastTested(basic))

(* Principal component analysis *)
RunPcaLoadPackages == ExecPca(1, PcaLoadPackages(pca))
RunPcaConnect == ExecPca(2, PcaConnect(pca))
RunPcaParams == ExecPca(3, PcaParams(pca))
RunPcaLoad ==
    /\ pc["pca"] = 4
    /\ \E a \in PcaArrays : ExecPca(4, PcaLoad(pca, TRUE, a))
RunPcaLoadFails == ExecPca(4, PcaLoad(pca, FALSE, <<>>))
RunPcaPlotInput == ExecPca(5, PcaPlotInput(pca))
RunPcaFlatten == ExecPca(6, PcaFlatten(pca))
RunPcaFit == ExecPca(7, PcaFit(pca))
RunPcaPrintVariance == ExecPca(8, PcaPrintVariance(pca))
RunPcaTransform == ExecPca(9, PcaTransform(pca))
RunPcaUnflatten == ExecPca(10, PcaUnflatten(pca))
RunPcaPlotOutput == ExecPca(11, PcaPlotOutput(pca))
RunPcaVersion == ExecPca(12, PcaVersion(pca))
RunPcaLastTested == ExecPca(13, PcaLastTested(pca))

(* Template *)
RunTemplateLoadPackages == ExecTemplate(1, TemplateLoadPackages(template))
RunTemplateConnect == ExecTemplate(2, TemplateConnect(template))
RunTemplateParams == ExecTemplate(3, TemplateParams(template))
RunTemplateA == ExecTemplate(4, TemplateAssign(template, "a", 1))
RunTemplateB == ExecTemplate(5, TemplateAssign(template, "b", 2))
RunTemplateC == ExecTemplate(6, TemplateAssign(template, "c", 3))
RunTemplateVersion == ExecTemplate(7, TemplateVersion(template))
RunTemplateLastTested == ExecTemplate(8, TemplateLastTested(template))

\* a fresh kernel runs the cells as written; once the user has gone back to an
\* earlier cell, the parameter cells may have been edited
Edited(nb, choices, written) == IF went_back[nb] THEN choices ELSE {written}

\* the cells of the Basic analysis notebook, the load answered by the service
RunBasicAnswered ==
    \/ RunBasicLoadPackages
    \/ RunBasicConnect
    \/ RunBasicStudyArea(Edited("basic", Centres, DefaultCentre), Buffers)
    \/ RunBasicDisplayMap
    \/ RunBasicLoadParams
    \/ RunBasicLoad(SessionCubes)
    \/ RunBasicPrint
    \/ RunBasicTimeStep(Edited("basic", TimeSteps, Scalar(DefaultTimeStep)))
    \/ RunBasicPlot
    \/ RunBasicNDVI
    \/ RunBasicNDVIPlot
    \/ RunBasicExport
    \/ RunBasicVersion
    \/ RunBasicLastTested

RunBasic == RunBasicAnswered \/ RunBasicLoadFails

\* the cells of the PCA notebook, the load answered by the service
RunPcaAnswered ==
    \/ RunPcaLoadPackages
    \/ RunPcaConnect
    \/ RunPcaParams
    \/ RunPcaLoad
    \/ RunPcaPlotInput
    \/ RunPcaFlatten
    \/ RunPcaFit
    \/ RunPcaPrintVariance
    \/ RunPcaTransform
    \/ RunPcaUnflatten
    \/ RunPcaPlotOutput
    \/ RunPcaVersion
    \/ RunPcaLastTested

RunPca == RunPcaAnswered \/ RunPcaLoadFails

RunTemplate ==
    \/ RunTemplateLoadPackages
    \/ RunTemplateConnect
    \/ RunTemplateParams
    \/ RunTemplateA
    \/ RunTemplateB
    \/ RunTemplateC
    \/ RunTemplateVersion
    \/ RunTemplateLastTested

RerunSome == \E nb \in Notebooks : \E k \in 1 .. Cells(nb) : Rerun(nb, k)

Next == RunBasic \/ RunPca \/ RunTemplate \/ RerunSome

\* notebook sessions: one of the three notebooks, in its own kernel
Spec == Init /\ [][Next]_vars

\* the arithmetic of the Basic analysis notebook: one run from a fresh kernel with
\* the cells as written, over every array of ArithCubes the load may return
NextNDVI ==
    \/ RunBasicLoadPackages
    \/ RunBasicConnect
    \/ RunBasicStudyArea({DefaultCentre}, {DefaultBuffer})
    \/ RunBasicDisplayMap
    \/ RunBasicLoadParams
    \/ RunBasicLoad(ArithCubes)
    \/ RunBasicPrint
    \/ RunBasicTimeStep({Scalar(DefaultTimeStep)})
    \/ RunBasicPlot
    \/ RunBasicNDVI
    \/ RunBasicNDVIPlot

SpecNDVI == Init /\ [][NextNDVI]_vars


----------------------------------------------------------------------------
(* Properties of the NDVI cell (cell 10 of the Basic analysis notebook) *)

\* the NDVI cell has just run without raising
AfterNDVI == last_cell = <<"basic", 10>> /\ err["basic"] = "none"

\* a float is below / above zero
Negative(v) == (v.kind = "finite" /\ v.num * v.den < 0) \/ (v.kind = "inf" /\ v.num < 0)
Positive(v) == (v.kind = "finite" /\ v.num * v.den > 0) \/ (v.kind = "inf" /\ v.num > 0)

\* the dataset that holds pixel i of ds and nothing else
SolePixel(ds, i) ==
    [ds EXCEPT !.shape = <<1, 1, 1>>,
               !.data  = [m \in DOMAIN ds.data |-> [j \in Index(<<1, 1, 1>>) |-> ds.data[m][i]]]]

\* C1: for every pixel and time step whose NIR + Red is not 0, the value stored
\* in ndvi is the mathematical ratio (NIR - Red) / (NIR + Red) of its bands
C1_NdviIsRatio ==
    AfterNDVI =>
        \A i \in Index(Get(basic.dataset).shape) :
            LET n == Get(basic.dataset).data["nir"][i]
                r == Get(basic.dataset).data["red"][i]
                v == Get(basic.ndvi).values[i]
            IN  n + r # 0 => v.kind = "finite" /\ v.num * (n + r) = (n - r) * v.den

\* C2: every finite value of ndvi lies in [-1, 1]
C2_NdviInUnitInterval ==
    AfterNDVI =>
        \A i \in Index(Get(basic.dataset).shape) :
            LET v == Get(basic.ndvi).values[i]
            IN  v.kind = "finite" => -v.den <= v.num /\ v.num <= v.den

\* C3: ndvi is negative where red > nir and positive where nir > red
C3_NdviSign ==
    AfterNDVI =>
        \A i \in Index(Get(basic.dataset).shape) :
            LET n == Get(basic.dataset).data["nir"][i]
                r == Get(basic.dataset).data["red"][i]
                v == Get(basic.ndvi).values[i]
            IN  (r > n => Negative(v)) /\ (n > r => Positive(v))

\* C4: ndvi has the dimensions (time, y, x) of the nir and red bands, the same
\* size along each, and one value per pixel per time step
C4_NdviSameShape ==
    AfterNDVI =>
        LET ds == Get(basic.dataset)
            a  == Get(basic.ndvi)
        IN  /\ a.dims = <<"time", "y", "x">>
            /\ a.dims = Band(ds, "nir").dims /\ a.dims = Band(ds, "red").dims
            /\ a.shape = Band(ds, "nir").shape /\ a.shape = Band(ds, "red").shape
            /\ DOMAIN a.values = Index(ds.shape)
            /\ Cardinality(DOMAIN a.values) = ds.shape[1] * ds.shape[2] * ds.shape[3]

\* C4 witness: the NDVI of an array of more than one time step
C4_Witness == AfterNDVI /\ Get(basic.dataset).shape = <<2, 1, 1>>

\* C5: where the denominator of a pixel is 0 the NDVI cell raises nothing and
\* the pixel's result is nan or inf; every pixel's result is the one it has in
\* an array that holds this pixel alone
C5_ZeroDenominatorUnguarded ==
    last_cell = <<"basic", 10>> =>
        /\ err["basic"] = "none"
        /\ \A i \in Index(Get(basic.dataset).shape) :
              LET ds == Get(basic.dataset)
                  v  == Get(basic.ndvi).values[i]
              IN  /\ Add16(ds.data["nir"][i], ds.data["red"][i]) = 0
                        => v.kind \in {"nan", "inf"}
                  /\ v = ndvi(band_diff(SolePixel(ds, i)),
                              band_sum(SolePixel(ds, i))).values[<<0, 0, 0>>]

\* C5 witness: a pixel with NIR + Red = 0 next to a pixel with a nonzero denominator
C5_Witness ==
    /\ AfterNDVI
    /\ \E i, j \in Index(Get(basic.dataset).shape) :
          LET ds == Get(basic.dataset)
          IN  /\ ds.data["nir"][i] + ds.data["red"][i] = 0
              /\ Add16(ds.data["nir"][j], ds.data["red"][j]) # 0
              /\ Get(basic.ndvi).values[i].kind = "nan"
              /\ Get(basic.ndvi).values[j].kind = "finite"


----------------------------------------------------------------------------
(* Properties of the notebook sessions *)

\* this step executes cell k of notebook nb
Executes(nb, k) == last_cell' = <<nb, k>> /\ vars' # vars

C7_NdviStoredInDataset ==
    AfterNDVI =>
        /\ Len(Get(basic.dataset).data_vars) = 5
        /\ {"red", "blue", "green", "nir"} \subseteq Range(Get(basic.dataset).data_vars)

\* C8: an execution of the load cell sends exactly one query; it carries the
\* values the parameter variables hold, and its result is bound to dataset
C8_LoadSendsOneQuery ==
    [][Executes("basic", 6) =>
          /\ Len(queries') = Len(queries) + 1
          /\ SubSeq(queries', 1, Len(queries)) = queries
          /\ LET q == queries'[Len(queries')].query
             IN  /\ q.product = Get(basic.set_product)
                 /\ q.x = Get(basic.study_area_lon)
                 /\ q.y = Get(basic.study_area_lat)
                 /\ q.time = Get(basic.set_time)
                 /\ q.measurements = Get(basic.set_measurements)
                 /\ q.output_crs = Get(basic.set_crs)
                 /\ q.resolution = Get(basic.set_resolution)
                 /\ DOMAIN q = {"app", "product", "x", "y", "time", "measurements",
                                "output_crs", "resolution"}
                 /\ queries'[Len(queries')].ok =>
                       /\ basic'.dataset # None
                       /\ \E c \in SessionCubes : Get(basic'.dataset) = Dataset(q, c)]_vars

\* C8 witness: a second load, after the user changed the study area, has sent a
\* query for the new area
C8_Witness ==
    /\ last_cell = <<"basic", 6>>
    /\ Len(queries) = 2
    /\ queries[2].ok
    /\ queries[2].query.x # queries[1].query.x
    /\ queries[2].query.x = Get(basic.study_area_lon)

\* C9: when the query of a load cell fails, the cell raises and the run stops at
\* it; one query was sent, nothing is bound, and the loaded array is as before
C9_FailedLoadKeepsOldValue ==
    [][/\ (Executes("basic", 6) /\ ~queries'[Len(queries')].ok) =>
             /\ err'["basic"] = "LoadError"
             /\ pc'["basic"] = 6
             /\ Len(queries') = Len(queries) + 1
             /\ basic' = basic
       /\ (Executes("pca", 4) /\ ~queries'[Len(queries')].ok) =>
             /\ err'["pca"] = "LoadError"
             /\ pc'["pca"] = 4
             /\ Len(queries') = Len(queries) + 1
             /\ pca' = pca]_vars

\* C9 witness: a load that failed when dataset was bound by an earlier load
C9_Witness ==
    /\ last_cell = <<"basic", 6>>
    /\ err["basic"] = "LoadError"
    /\ basic.dataset # None
    /\ Len(queries) = 2 /\ queries[1].ok /\ ~queries[2].ok

\* C10: in a run from a fresh kernel, top to bottom, no cell of any notebook
\* reads a name before a cell has bound it
C10_NoUseBeforeDefinition ==
    \A nb \in Notebooks : ~went_back[nb] => err[nb] # "NameError"

\* C10 witness: every cell of the Basic analysis notebook has run once, in order
C10_Witness ==
    /\ pc["basic"] = BasicCells + 1
    /\ ~went_back["basic"]
    /\ err["basic"] = "none"


----------------------------------------------------------------------------
(* Properties of re-running the Basic analysis notebook *)

\* the study area of the central coordinates and buffer held in namespace ns
AreaLat(ns) ==
    <<FSub(Get(ns.central_lat), Get(ns.buffer)), FAdd(Get(ns.central_lat), Get(ns.buffer))>>
AreaLon(ns) ==
    <<FSub(Get(ns.central_lon), Get(ns.buffer)), FAdd(Get(ns.central_lon), Get(ns.buffer))>>

\* the user went back, changed the central coordinates in the study-area cell
\* (and nothing else) and re-ran that cell and every cell after it, in order,
\* down to the export cell
RerunWithNewCentre ==
    /\ went_back["basic"]
    /\ last_cell = <<"basic", 12>>
    /\ basic.central_lat # None
    /\ basic.time_step = Some(Scalar(DefaultTimeStep))
    /\ <<Get(basic.central_lat), Get(basic.central_lon)>>
           # <<FloatLiteral(DefaultCentre[1]), FloatLiteral(DefaultCentre[2])>>

\* C11: after the central coordinates were changed and the study-area cell and
\* every cell after it re-run in order, the study area, the displayed map, the
\* dataset, band_diff, band_sum, ndvi and the exported file all come from the
\* new coordinates, and no cell of the re-run raised
C11_RerunReflectsChange ==
    RerunWithNewCentre =>
        /\ err["basic"] = "none"
        /\ Get(basic.study_area_lat) = AreaLat(basic)
        /\ Get(basic.study_area_lon) = AreaLon(basic)
        /\ shown["basic"][4] = Some([x |-> AreaLon(basic), y |-> AreaLat(basic)])
        /\ \A n \in {"dataset", "band_diff", "band_sum", "ndvi"} :
              Get(basic[n]).x = AreaLon(basic) /\ Get(basic[n]).y = AreaLat(basic)
        /\ \E f \in files : f.fname = Get(basic.filename)
        /\ \A f \in files :
              f.fname = Get(basic.filename) => f.x = AreaLon(basic) /\ f.y = AreaLat(basic)


----------------------------------------------------------------------------
(* Properties of the study-area cell (cell 3 of the Basic analysis notebook) *)

\* central coordinates and buffers the study-area specification draws from: the
\* latitudes and longitudes of the three locations the notebook offers, and
\* buffers from 0 in steps of 0.025 degree (literals, in thousandths)
AreaCentres == {13974, -243, 6688} \X {-16575, 37459, -1303}
AreaBuffers == {25 * k : k \in 0 .. MaxBufferSteps}

\* the study-area cell on a fresh kernel, over AreaCentres and AreaBuffers
NextArea ==
    \/ RunBasicLoadPackages
    \/ RunBasicConnect
    \/ RunBasicStudyArea(AreaCentres, AreaBuffers)
    \/ RunBasicDisplayMap

SpecArea == Init /\ [][NextArea]_vars

\* the study-area cell has just run
AfterStudyArea == last_cell = <<"basic", 3>> /\ err["basic"] = "none"

\* the extent of a pair of floats: second - first, exactly
Extent(pair) == ExactSub(pair[2], pair[1])

\* the extent of the pair differs from 2 * buf by no more than the rounding of
\* its two elements: half a unit in the last place of each
ExtentRounded(pair, buf) ==
    LET d == ExactSub(Extent(pair), ExactAdd(buf, buf)).mag
    IN  ~MagLess(MagAdd(<<MagUlp(pair[1].mag), 0, 0, 0>>, <<MagUlp(pair[2].mag), 0, 0, 0>>),
                 MagAdd(d, d))

\* C12 as stated: for every central_lat, central_lon and buffer >= 0 the study
\* area is (central - buffer, central + buffer) in latitude and in longitude,
\* each of extent exactly 2 * buffer, the first element not greater than the second
C12_SquareStudyArea ==
    AfterStudyArea =>
        LET lat == Get(basic.central_lat)
            lon == Get(basic.central_lon)
            buf == Get(basic.buffer)
            a   == Get(basic.study_area_lat)
            o   == Get(basic.study_area_lon)
        IN  /\ a = <<FSub(lat, buf), FAdd(lat, buf)>>
            /\ o = <<FSub(lon, buf), FAdd(lon, buf)>>
            /\ Extent(a) = ExactAdd(buf, buf)
            /\ Extent(o) = ExactAdd(buf, buf)
            /\ FLeq(a[1], a[2]) /\ FLeq(o[1], o[2])

\* C12 amended: for every central_lat, central_lon and buffer >= 0 the study
\* area is (central - buffer, central + buffer) in latitude and in longitude,
\* computed in floats; the centre lies between the first and the second element
\* of each pair, and each extent is 2 * buffer up to the rounding of the two
\* float operations
C12_SquareStudyAreaRounded ==
    AfterStudyArea =>
        LET lat == Get(basic.central_lat)
            lon == Get(basic.central_lon)
            buf == Get(basic.buffer)
            a   == Get(basic.study_area_lat)
            o   == Get(basic.study_area_lon)
        IN  /\ a = <<FSub(lat, buf), FAdd(lat, buf)>>
            /\ o = <<FSub(lon, buf), FAdd(lon, buf)>>
            /\ ExtentRounded(a, buf)
            /\ ExtentRounded(o, buf)
            /\ FLeq(a[1], lat) /\ FLeq(lat, a[2])
            /\ FLeq(o[1], lon) /\ FLeq(lon, o[2])

\* C12 witness: the study area of the coordinates and buffer written in the cell
\* (13.974, -16.575, 0.075), whose extent in latitude is not exactly 2 * buffer
C12_Witness ==
    /\ AfterStudyArea
    /\ Get(basic.central_lat) = FloatLiteral(DefaultCentre[1])
    /\ Get(basic.central_lon) = FloatLiteral(DefaultCentre[2])
    /\ Get(basic.buffer) = FloatLiteral(DefaultBuffer)
    /\ Extent(Get(basic.study_area_lat)) # ExactAdd(Get(basic.buffer), Get(basic.buffer))
    /\ Get(basic.study_area_lat)[1] # Get(basic.study_area_lat)[2]


----------------------------------------------------------------------------
(* Properties of the export cell (cell 12 of the Basic analysis notebook) *)

\* this step executes the export cell and the cell does not raise
Exports == Executes("basic", 12) /\ err'["basic"] = "none"

\* C13: an export writes one file, named by filename; its array is the loaded
\* dataset at the time step time_step selects, the one the RGB plot shows, with
\* the loaded measurements red, blue, green, nir as its bands, in that order
C13_ExportsSelectedTimeStep ==
    [][Exports =>
          \E f \in files' :
              LET ds == Get(basic.dataset)
                  t  == Get(basic.time_step).at[1]
              IN  /\ files' = files \cup {f}
                  /\ ~Get(basic.time_step).list
                  /\ f \notin files
                  /\ f.fname = Get(basic'.filename)
                  /\ f.bands = <<"red", "blue", "green", "nir">>
                  /\ f.bands = Get(basic.set_measurements)
                  /\ f.index = (IF t < 0 THEN ds.shape[1] + t ELSE t)
                  /\ f.index = Get(shown["basic"][9]).index
                  /\ DOMAIN f.data = {"red", "blue", "green", "nir"}
                  /\ \A m \in DOMAIN f.data :
                        /\ DOMAIN f.data[m] =
                              (0 .. ds.shape[2] - 1) \X (0 .. ds.shape[3] - 1)
                        /\ \A p \in DOMAIN f.data[m] :
                              f.data[m][p] = ds.data[m][<<f.index, p[1], p[2]>>]]_vars

\* C13 witness: an export of the last of two time steps (time_step = -1), whose
\* pixels differ from those of the first
C13_Witness ==
    /\ last_cell = <<"basic", 12>>
    /\ err["basic"] = "none"
    /\ Get(basic.time_step) = Scalar(-1)
    /\ Get(basic.dataset).shape[1] = 2
    /\ \E f \in files : f.index = 1 /\ f.data["nir"][<<0, 0>>] = PixelSamples[2][1]


----------------------------------------------------------------------------
(* Properties of notebooks run side by side *)

\* the Basic analysis and the PCA notebook side by side, each in its own kernel
\* and top to bottom with the cells as written, in any interleaving; the service
\* answers every load
InitSideBySide == Fresh /\ side_by_side = TRUE
NextSideBySide == RunBasicAnswered \/ RunPcaAnswered
SpecSideBySide == InitSideBySide /\ [][NextSideBySide]_vars

\* cell k of the Basic analysis notebook as written, on namespace ns with the
\* files of disk in the directory, the load answered with cube c
BasicCell(k, ns, c, disk) ==
    CASE k = 1  -> BasicLoadPackages(ns)
      [] k = 2  -> BasicConnect(ns)
      [] k = 3  -> BasicStudyArea(ns, DefaultCentre[1], DefaultCentre[2], DefaultBuffer)
      [] k = 4  -> BasicDisplayMap(ns)
      [] k = 5  -> BasicLoadParams(ns)
      [] k = 6  -> BasicLoad(ns, TRUE, c)
      [] k = 7  -> BasicPrint(ns)
      [] k = 8  -> BasicTimeStep(ns, Scalar(DefaultTimeStep))
      [] k = 9  -> BasicPlot(ns)
      [] k = 10 -> BasicNDVI(ns)
      [] k = 11 -> BasicNDVIPlot(ns)
      [] k = 12 -> BasicExport(ns, disk)
      [] k = 13 -> BasicVersion(ns)
      [] k = 14 -> BasicLastTested(ns)

\* cell k of the PCA notebook, the load answered with the array a
PcaCell(k, ns, a) ==
    CASE k = 1  -> PcaLoadPackages(ns)
      [] k = 2  -> PcaConnect(ns)
      [] k = 3  -> PcaParams(ns)
      [] k = 4  -> PcaLoad(ns, TRUE, a)
      [] k = 5  -> PcaPlotInput(ns)
      [] k = 6  -> PcaFlatten(ns)
      [] k = 7  -> PcaFit(ns)
      [] k = 8  -> PcaPrintVariance(ns)
      [] k = 9  -> PcaTransform(ns)
      [] k = 10 -> PcaUnflatten(ns)
      [] k = 11 -> PcaPlotOutput(ns)
      [] k = 12 -> PcaVersion(ns)
      [] k = 13 -> PcaLastTested(ns)

\* the Basic analysis notebook run alone: namespace, outputs and files after its
\* first k cells on a fresh kernel
RECURSIVE BasicSolo(_, _)
BasicSolo(k, c) ==
    IF k = 0
    THEN [ns    |-> [n \in BasicNames |-> None],
          shown |-> [j \in 1 .. BasicCells |-> None],
          files |-> {}]
    ELSE LET before == BasicSolo(k - 1, c)
             r      == BasicCell(k, before.ns, c, before.files)
         IN  [ns    |-> r.ns,
              shown |-> [before.shown EXCEPT ![k] = r.show],
              files |-> before.files \cup r.f]

\* the PCA notebook run alone: namespace, outputs and files after its first k cells
RECURSIVE PcaSolo(_, _)
PcaSolo(k, a) ==
    IF k = 0
    THEN [ns    |-> [n \in PcaNames |-> None],
          shown |-> [j \in 1 .. PcaCells |-> None],
          files |-> {}]
    ELSE LET before == PcaSolo(k - 1, a)
             r      == PcaCell(k, before.ns, a)
         IN  [ns    |-> r.ns,
              shown |-> [before.shown EXCEPT ![k] = r.show],
              files |-> before.files \cup r.f]

\* what the service answered to the load of each notebook (any answer, as long
\* as the load has not succeeded)
BasicAnswer ==
    CHOOSE c \in SessionCubes : basic.dataset # None => c.shape = Get(basic.dataset).shape
PcaAnswer ==
    CHOOSE a \in PcaArrays :
        pca.ds # None => a.shape = Get(pca.ds).shape /\ a.valid = Get(pca.ds).valid

\* the number of cells notebook nb has run, the cell it stopped at included
CellsRun(nb) == IF err[nb] = "none" THEN pc[nb] - 1 ELSE pc[nb]

\* C15: in every interleaving of the cells of the Basic analysis notebook and the
\* PCA notebook, the variables, the outputs and the files of each notebook are
\* those of the notebook run alone as far as it has got, whatever the other has done
C15_NotebooksIndependent ==
    LET b == BasicSolo(CellsRun("basic"), BasicAnswer)
        p == PcaSolo(CellsRun("pca"), PcaAnswer)
    IN  /\ basic = b.ns
        /\ shown["basic"] = b.shown
        /\ pca = p.ns
        /\ shown["pca"] = p.shown
        /\ files = b.files \cup p.files

\* C15 witness: the PCA notebook has got as far as its load, and the Basic
\* analysis notebook has loaded its data after that and run to its end; the
\* names the notebooks have in common hold different values
C15_Witness ==
    /\ side_by_side
    /\ pc["basic"] = BasicCells + 1 /\ pc["pca"] = 5
    /\ Len(queries) = 2
    /\ queries[1].query.app = "pca"
    /\ queries[2].query.app = "05_Basic_analysis"
    /\ \A n \in {"dc", "buffer", "bands"} :
          basic[n] # None /\ pca[n] # None /\ basic[n] # pca[n]


----------------------------------------------------------------------------
(* Properties of what a session leaves behind *)

\* C16: the only files a session writes are written by the export cell of the
\* Basic analysis notebook: no file before that cell has run, none in a session
\* of the PCA notebook or of the template, never more than the one file named by
\* filename, and exactly that file after a full run from top to bottom
C16_OnlyExportPersists ==
    /\ \A f \in files : basic.filename # None /\ f.fname = Get(basic.filename)
    /\ Cardinality(files) <= 1
    /\ (pc["basic"] <= 12 /\ ~went_back["basic"]) => files = {}
    /\ (pc["pca"] > 1 \/ pc["template"] > 1) => files = {}
    /\ (pc["basic"] = BasicCells + 1 /\ ~went_back["basic"]) => Cardinality(files) = 1

\* C16 witness: a full run of the Basic analysis notebook, top to bottom, has
\* left example.tif and nothing else
C16_Witness ==
    /\ pc["basic"] = BasicCells + 1
    /\ ~went_back["basic"]
    /\ \E f \in files : files = {f} /\ f.fname = "example.tif"


----------------------------------------------------------------------------
(* Properties of the time step (cells 8, 9 and 12 of the Basic analysis notebook) *)

\* time_step holds an integer the notebook says may be used with the loaded
\* dataset: 0 .. T - 1, or -1
TimeStepAllowed ==
    /\ Bound(basic, {"dataset", "time_step"})
    /\ ~Get(basic.time_step).list
    /\ Get(basic.time_step).at[1] \in (-1) .. (Get(basic.dataset).shape[1] - 1)

\* the position on the time axis that time_step stands for
TimeStepMeant ==
    IF Get(basic.time_step).at[1] = -1
    THEN Get(basic.dataset).shape[1] - 1
    ELSE Get(basic.time_step).at[1]

\* C17: with T time steps loaded, every time_step of 0 .. T - 1 selects that
\* time step in the plot, in the title and in the export, and -1 selects the
\* last one, T - 1; none of them is out of range
C17_TimeStepSelects ==
    /\ (last_cell = <<"basic", 9>> /\ TimeStepAllowed) =>
          /\ err["basic"] = "none"
          /\ Get(shown["basic"][9]).index = TimeStepMeant
          /\ Get(shown["basic"][9]).panels = <<TimeStepMeant>>
          /\ Get(shown["basic"][9]).title = TimeStepMeant
          /\ Get(basic.time_string) = TimeStepMeant
    /\ (last_cell = <<"basic", 12>> /\ TimeStepAllowed) =>
          /\ err["basic"] # "IndexError"
          /\ err["basic"] = "none" => \E f \in files : f.index = TimeStepMeant

\* C17 witness: the plot of the last of two time steps, selected with -1
C17_Witness ==
    /\ last_cell = <<"basic", 9>>
    /\ err["basic"] = "none"
    /\ Get(basic.time_step) = Scalar(-1)
    /\ Get(basic.dataset).shape[1] = 2
    /\ Get(shown["basic"][9]).index = 1


\* C18: with time_step a list of time indices of the loaded dataset, the plot
\* cell does not raise and plots all the provided time steps, one panel each,
\* in the order of the list
C18_ListPlotsAll ==
    (/\ last_cell = <<"basic", 9>>
     /\ Bound(basic, {"dataset", "time_step"})
     /\ Get(basic.time_step).list
     /\ \A j \in 1 .. Len(Get(basic.time_step).at) :
           Get(basic.time_step).at[j] \in (-1) .. (Get(basic.dataset).shape[1] - 1)) =>
        LET t == Get(basic.time_step).at
            n == Get(basic.dataset).shape[1]
        IN  /\ err["basic"] = "none"
            /\ shown["basic"][9] # None
            /\ Len(Get(shown["basic"][9]).panels) = Len(t)
            /\ \A j \in 1 .. Len(t) :
                  Get(shown["basic"][9]).panels[j] = (IF t[j] = -1 THEN n - 1 ELSE t[j])

\* C18 witness: the plot of the first and the last of two loaded time steps
C18_Witness ==
    /\ last_cell = <<"basic", 9>>
    /\ err["basic"] = "none"
    /\ Get(basic.time_step) = List(<<0, -1>>)
    /\ Get(basic.dataset).shape[1] = 2
    /\ Get(shown["basic"][9]).panels = <<0, 1>>


----------------------------------------------------------------------------
(* Properties of the PCA notebook *)

\* C19: the result out of the PCA notebook has the dimensions (time, y, x) of
\* the input ds, with the same sizes, and exactly three data variables, named
\* 0, 1 and 2, one per principal component; the final rgb call finds its bands
\* [2, 1, 0] among them and does not raise
C19_OutCompatibleWithInput ==
    /\ (last_cell = <<"pca", 10>> /\ err["pca"] = "none") =>
          LET out == Get(pca.out)
              ds  == Get(pca.ds)
          IN  /\ out.dims = <<"time", "y", "x">>
              /\ out.dims = ds.dims
              /\ out.shape = ds.shape
              /\ out.data_vars = <<0, 1, 2>>
              /\ Len(out.data_vars) = Get(pca.pca).n_components
              /\ \A b \in Range(<<2, 1, 0>>) : b \in Range(out.data_vars)
    /\ last_cell = <<"pca", 10>> => err["pca"] = "none"
    /\ last_cell = <<"pca", 11>> =>
          /\ err["pca"] = "none"
          /\ Get(shown["pca"][11]).bands = <<2, 1, 0>>
          /\ Len(Get(shown["pca"][11]).panels) = Get(pca.ds).shape[1]

\* C19 witness: the result for an input of two time steps, one row and three
\* columns of pixels, one of its pixels masked, has been plotted
C19_Witness ==
    /\ last_cell = <<"pca", 11>>
    /\ err["pca"] = "none"
    /\ Get(pca.ds).shape = <<2, 1, 3>>
    /\ Get(pca.ds).valid = 5
    /\ Get(pca.out).shape = <<2, 1, 3>>


----------------------------------------------------------------------------
(* Properties of the denominator of the NDVI *)

\* C20: after the NDVI cell, band_sum is 0 at a pixel only when both the nir
\* and the red value of that pixel are 0
C20_ZeroSumOnlyForZeroBands ==
    AfterNDVI =>
        \A i \in Index(Get(basic.dataset).shape) :
            Get(basic.band_sum).values[i] = 0 =>
                /\ Get(basic.dataset).data["nir"][i] = 0
                /\ Get(basic.dataset).data["red"][i] = 0

====
